---- MODULE Spec2Model ----
(***************************************************************************)
(* StylexWebpackPlugin: the plugin (src/src/index.js, StylexPlugin and its *)
(* TypeScript variant StylexWebpackPlugin) and its loader (stylexLoader).  *)
(*                                                                         *)
(* One plugin instance serves a sequence of compilations.  Per compilation *)
(* webpack runs: make -> module loading (the loader calls transformCode,   *)
(* possibly for several modules at once) -> afterOptimizeChunks ->         *)
(* processAssets.  The plugin's own state is the file->rules map           *)
(* (stylexRules) and the file->bundles map (fileToBundlesMap).             *)
(*                                                                         *)
(* Strings the code searches (module text, import names) are sequences of  *)
(* characters; file paths are records of their directory segments, base    *)
(* name and extension.  JavaScript objects and Maps are insertion-ordered  *)
(* maps: sequences of [key, val] entries.                                  *)
(***************************************************************************)
EXTENDS Integers, Sequences, FiniteSets, TLC

(***************************************************************************)
(* Bounds of the model.                                                    *)
(***************************************************************************)
MaxCompilations == 2
MaxChunks == 2
MaxRuleLen == 2
MaxCodeLen == 2
MaxParallel == 2

(***************************************************************************)
(* Generic helpers.                                                        *)
(***************************************************************************)
SeqsUpTo(S, n) == UNION {[1..k -> S] : k \in 0..n}

Range(s) == {s[i] : i \in 1..Len(s)}

\* String.prototype.includes / Array.prototype.includes on sequences:
\* needle occurs as a contiguous run of hay.
Includes(hay, needle) ==
  \E i \in 0..(Len(hay) - Len(needle)) :
    \A j \in 1..Len(needle) : hay[i + j] = needle[j]

\* Insertion-ordered maps (JS object with non-index keys, Map, Set).
Keys(m) == [i \in 1..Len(m) |-> m[i].key]

Has(m, k) == \E i \in 1..Len(m) : m[i].key = k

Get(m, k) == m[CHOOSE i \in 1..Len(m) : m[i].key = k].val

\* obj[k] = v / map.set(k, v): an existing key keeps its position.
Put(m, k, v) ==
  IF Has(m, k)
    THEN [i \in 1..Len(m) |-> IF m[i].key = k THEN [key |-> k, val |-> v] ELSE m[i]]
    ELSE Append(m, [key |-> k, val |-> v])

(***************************************************************************)
(* File paths.                                                             *)
(***************************************************************************)
FileA == [dirs |-> <<"src">>, base |-> "a", ext |-> ".js"]
FileB == [dirs |-> <<"src">>, base |-> "b", ext |-> ".tsx"]
FileN == [dirs |-> <<"node_modules", "lib">>, base |-> "n", ext |-> ".css"]
\* module.resource of a module that has none (falsy)
NoResource == [dirs |-> <<>>, base |-> "", ext |-> ""]

Files == {FileA, FileB, FileN}
Resources == Files \cup {NoResource}

\* /\.[mc]?[jt]sx?$/.test(path.extname(module.resource))
LoaderExtensions ==
  {".js", ".jsx", ".ts", ".tsx", ".mjs", ".mjsx", ".mts", ".mtsx",
   ".cjs", ".cjsx", ".cts", ".ctsx"}

InterceptorMatches(resource) == resource.ext \in LoaderExtensions

\* the modules the loader is prepended to
LoaderFiles == {f \in Files : InterceptorMatches(f)}

\* filePath.includes(path.sep + 'node_modules' + path.sep): some directory
\* segment of the absolute path is node_modules
IsNodeModule(filePath) ==
  \E i \in 1..Len(filePath.dirs) : filePath.dirs[i] = "node_modules"

(***************************************************************************)
(* Bundle-membership tracker (afterOptimizeChunks).                        *)
(***************************************************************************)
\* the chunks webpack may hand over: named with an id, unnamed with id 0,
\* unnamed without id (only the rendered hash is left)
ChunkHeads ==
  { [name |-> "main", hasId |-> TRUE, id |-> 1, renderedHash |-> "h1"],
    [name |-> "", hasId |-> TRUE, id |-> 0, renderedHash |-> "h0"],
    [name |-> "", hasId |-> FALSE, id |-> 0, renderedHash |-> "h2"] }

\* chunkGraph.getChunkModules(chunk), by resource, in iteration order
ModuleLists ==
  { <<>>, <<FileA>>, <<FileB>>, <<FileA, FileB>>, <<FileB, FileA>>,
    <<FileA, FileA>>, <<FileN, FileA>>, <<NoResource, FileB>> }

\* the module lists that hold source files only, each once
SourceModuleLists == { <<>>, <<FileA>>, <<FileB>>, <<FileA, FileB>> }

ChunksWith(lists) ==
  { [name |-> h.name, hasId |-> h.hasId, id |-> h.id,
     renderedHash |-> h.renderedHash, modules |-> m] :
      h \in ChunkHeads, m \in lists }

HeadOf(c) ==
  [name |-> c.name, hasId |-> c.hasId, id |-> c.id, renderedHash |-> c.renderedHash]

\* lists of distinct chunks (one chunk object per head)
ChunkListsWith(lists) ==
  { cs \in SeqsUpTo(ChunksWith(lists), MaxChunks) :
      \A i, j \in 1..Len(cs) : i # j => HeadOf(cs[i]) # HeadOf(cs[j]) }

ChunkLists == ChunkListsWith(ModuleLists)

SourceChunkLists == ChunkListsWith(SourceModuleLists)

\* chunk.name || chunk.id?.toString() || `chunk-${chunk.renderedHash}`
ChunkName(chunk) ==
  IF chunk.name # "" THEN chunk.name
  ELSE IF chunk.hasId THEN ToString(chunk.id)
  ELSE "chunk-" \o chunk.renderedHash

\* lines 90-96 with the includes() test left out
AddBundleAlways(map, filePath, chunkName) ==
  Put(map, filePath,
      Append(IF Has(map, filePath) THEN Get(map, filePath) ELSE <<>>, chunkName))

\* lines 90-96: create the file's list if missing, push the name if absent
AddBundle(map, filePath, chunkName) ==
  LET withEntry == IF ~Has(map, filePath) THEN Put(map, filePath, <<>>) ELSE map
      bundles == Get(withEntry, filePath)
  IN IF ~(chunkName \in Range(bundles))
       THEN Put(withEntry, filePath, Append(bundles, chunkName))
       ELSE withEntry

\* the inner loop over the modules of one chunk
RECURSIVE AddChunkModules(_, _, _)
AddChunkModules(map, chunkName, modules) ==
  IF modules = <<>> THEN map
  ELSE LET filePath == Head(modules)
           next == IF filePath # NoResource /\ ~IsNodeModule(filePath)
                     THEN AddBundle(map, filePath, chunkName)
                     ELSE map
       IN AddChunkModules(next, chunkName, Tail(modules))

\* the outer loop over the chunks
RECURSIVE AddChunks(_, _)
AddChunks(map, chunks) ==
  IF chunks = <<>> THEN map
  ELSE LET chunkName == ChunkName(Head(chunks))
       IN IF chunkName = "" THEN AddChunks(map, Tail(chunks))
          ELSE AddChunks(AddChunkModules(map, chunkName, Head(chunks).modules),
                         Tail(chunks))

\* the reset left out: the new memberships are merged into the old map
KeepMap(old) == old

\* this.fileToBundlesMap = {}
ResetMap(old) == <<>>

(***************************************************************************)
(* Rule aggregator (getBundleToStylexRules).                               *)
(***************************************************************************)
Rules == {"r1", "r2"}

\* metadata.stylex of one compiled file: absent, or a list of rules
NoStylex == [has |-> FALSE, rules |-> <<>>]

StylexOutputs ==
  {NoStylex} \cup
  { [has |-> TRUE, rules |-> r] :
      r \in {q \in SeqsUpTo(Rules, MaxRuleLen) :
               \A i, j \in 1..Len(q) : i # j => q[i] # q[j]} }

\* useCSSLayers = false (constructor default; the TypeScript variant passes false)
UseCSSLayers == FALSE

\* the membership test left out: every file counts for every recorded bundle
BundlesOfAnyFile(map, filename) ==
  LET all == UNION {Range(map[i].val) : i \in 1..Len(map)}
      RECURSIVE Enum(_)
      Enum(S) == IF S = {} THEN <<>>
                 ELSE LET x == CHOOSE y \in S : TRUE IN <<x>> \o Enum(S \ {x})
  IN Enum(all)

\* this.fileToBundlesMap[filename]; a missing entry (null) is skipped, which
\* is the same as running over no bundle
BundlesOf(map, filename) ==
  IF Has(map, filename) THEN Get(map, filename) ELSE <<>>

\* lines 118-123: push the file's rules onto each of its bundles' lists
RECURSIVE PushRules(_, _, _, _)
PushRules(acc, filename, fileRules, bundles) ==
  IF bundles = <<>> THEN acc
  ELSE LET bundle == Head(bundles)
           list == IF Has(acc.bundleToRules, bundle)
                     THEN Get(acc.bundleToRules, bundle) ELSE <<>>
           next == [bundleToRules |-> Put(acc.bundleToRules, bundle, list \o fileRules),
                    pushed |-> acc.pushed \cup {<<filename, bundle>>}]
       IN PushRules(next, filename, fileRules, Tail(bundles))

\* lines 112-124: for (const filename in stylexRules)
RECURSIVE JoinRules(_, _, _)
JoinRules(acc, rulesMap, map) ==
  IF rulesMap = <<>> THEN acc
  ELSE JoinRules(PushRules(acc, Head(rulesMap).key, Head(rulesMap).val,
                           BundlesOf(map, Head(rulesMap).key)),
                 Tail(rulesMap), map)

\* the bundle lists before processing, with the (file, bundle) pairs pushed;
\* nothing is built when no file has rules (return null)
BundleToRules(rulesMap, map) ==
  IF Len(rulesMap) = 0
    THEN [bundleToRules |-> <<>>, pushed |-> {}]
    ELSE JoinRules([bundleToRules |-> <<>>, pushed |-> {}], rulesMap, map)

\* Keys of a plain object in for-in / Object.keys order: array-index keys
\* ("0", "1", ...) first in ascending order, then the others as inserted.
IndexNumbers == {h.id : h \in {c \in ChunkHeads : c.hasId}}

IsIndexKey(k) == \E n \in IndexNumbers : ToString(n) = k

NumberOf(k) == CHOOSE n \in IndexNumbers : ToString(n) = k

RECURSIVE SortIndexKeys(_)
SortIndexKeys(ks) ==
  IF ks = <<>> THEN <<>>
  ELSE LET m == CHOOSE i \in 1..Len(ks) :
                  \A j \in 1..Len(ks) : NumberOf(ks[i]) <= NumberOf(ks[j])
       IN <<ks[m]>> \o SortIndexKeys(SelectSeq(ks, LAMBDA k : k # ks[m]))

ObjectKeys(m) ==
  SortIndexKeys(SelectSeq(Keys(m), IsIndexKey))
    \o SelectSeq(Keys(m), LAMBDA k : ~IsIndexKey(k))

\* stylexBabelPlugin.processStylexRules(rules, useCSSLayers): the external
\* rule processor; it drops duplicate rules and serialises the rest
RECURSIVE Dedup(_)
Dedup(rules) ==
  IF rules = <<>> THEN <<>>
  ELSE LET init == Dedup(SubSeq(rules, 1, Len(rules) - 1))
           last == rules[Len(rules)]
       IN IF last \in Range(init) THEN init ELSE Append(init, last)

ProcessStylexRules(rules, useCSSLayers) ==
  [css |-> Dedup(rules), layers |-> useCSSLayers]

(***************************************************************************)
(* Asset emitter (processAssets).                                          *)
(***************************************************************************)
\* hash over the payload with the configured function, salt and digest
GetContentHash(source) == [digestOf |-> source]

\* the plugin's filename template resolved instead: [name].stylex.css with
\* name = path.parse(`${bundle}.stylex.css`).name
AssetFilenameFromTemplate(bundle) == bundle \o ".stylex.stylex.css"

\* `${bundle}.stylex.css`; the name holds no token, so
\* compilation.getPathWithInfo(filename, data).path is the name itself
AssetFilename(bundle) == bundle \o ".stylex.css"

Asset(bundle, collectedCSS) ==
  [name |-> AssetFilename(bundle), source |-> collectedCSS,
   contentHash |-> GetContentHash(collectedCSS)]

\* where an emission pass throws: nowhere, or at bundle number `at` in
\* processStylexRules, getContentHash, getPathWithInfo or emitAsset
NoFail == [step |-> "none", at |-> 0]

ThrowingSteps == {"process", "hash", "path", "emit"}

Fails(n) == {NoFail} \cup {[step |-> s, at |-> i] : s \in ThrowingSteps, i \in 1..n}

NoException == [step |-> "none", bundle |-> ""]

Exception(order, fail) ==
  IF fail = NoFail THEN NoException
  ELSE [step |-> fail.step, bundle |-> order[fail.at]]

\* the try block wrapped around each bundle instead of around the loop
EmittedSkipping(order, bundleToRules, fail) ==
  LET keep == SelectSeq(order, LAMBDA b : fail = NoFail \/ b # order[fail.at])
  IN IF fail.step = "process" THEN <<>>
     ELSE [i \in 1..Len(keep) |->
             Asset(keep[i], ProcessStylexRules(Get(bundleToRules, keep[i]), UseCSSLayers))]

\* lines 165-197: the assets emitted before the pass ends or throws
Emitted(order, bundleToRules, fail) ==
  LET n == IF fail = NoFail THEN Len(order)
           ELSE IF fail.step = "process" THEN 0
           ELSE fail.at - 1
  IN [i \in 1..n |->
        Asset(order[i], ProcessStylexRules(Get(bundleToRules, order[i]), UseCSSLayers))]

\* the catch block left empty
CatchSwallowing(errors, fail, exception) == errors

\* catch (e) { compilation.errors.push(e) }
Catch(errors, fail, exception) ==
  IF fail = NoFail THEN errors ELSE Append(errors, exception)

(***************************************************************************)
(* Transformation step (transformCode) and loader (stylexLoader).          *)
(***************************************************************************)
Chars == {"s", "x"}

\* stylexImports = ['stylex', '@stylexjs/stylex'], shortened to "sx", "@sx"
StylexImports == << <<"s", "x">>, <<"@", "s", "x">> >>

InputCodes == SeqsUpTo(Chars, MaxCodeLen)

\* the short-circuit left out: every module is compiled
UsesStylexAlways(inputCode) == TRUE

\* this.stylexImports.some((importName) => inputCode.includes(importName))
UsesStylex(inputCode) ==
  \E k \in 1..Len(StylexImports) : Includes(inputCode, StylexImports[k])

\* babel's output for a source text
Compiled(source) == <<"c">> \o source
SourceMap(source) == <<"m">> \o source
NoMap == <<>>

\* values a promise settles with / the callback is called with
NoError == [isError |-> FALSE, text |-> ""]
NoOut == [ok |-> TRUE, code |-> <<>>, map |-> NoMap, err |-> NoError]
Resolved(code, map) == [ok |-> TRUE, code |-> code, map |-> map, err |-> NoError]
Rejected(err) == [ok |-> FALSE, code |-> <<>>, map |-> NoMap, err |-> err]

\* what the external compiler (babel.transformAsync) may do: return a result
\* with some metadata.stylex, return null, reject with an Error, or reject
\* with a value that is no Error
BabelOutcomes ==
  { [kind |-> "result", stylex |-> st] : st \in StylexOutputs }
    \cup { [kind |-> k, stylex |-> NoStylex] : k \in {"null", "error", "nonError"} }

\* the entry deleted and added again (it moves to the end)
RecordMoving(rulesMap, filename, stylex) ==
  IF stylex.has /\ Len(stylex.rules) > 0
    THEN SelectSeq(rulesMap, LAMBDA e : e.key # filename)
           \o <<[key |-> filename, val |-> stylex.rules]>>
    ELSE rulesMap

\* the map assigned anew with the one entry
RecordAlone(rulesMap, filename, stylex) ==
  IF stylex.has /\ Len(stylex.rules) > 0
    THEN <<[key |-> filename, val |-> stylex.rules]>>
    ELSE rulesMap

\* lines 235-238: store a non-empty rule list under the file's path
Record(rulesMap, filename, stylex) ==
  IF stylex.has /\ Len(stylex.rules) > 0
    THEN Put(rulesMap, filename, stylex.rules)
    ELSE rulesMap

\* lines 239-243: what transformCode returns after a compilation
Returned(inputCode, babelrcMode) ==
  IF ~babelrcMode
    THEN Resolved(Compiled(inputCode), SourceMap(inputCode))
    ELSE Resolved(inputCode, NoMap)

\* the rejection handler left out
CallbackArgsNoFailure(out) ==
  [called |-> out.ok, err |-> NoError, code |-> out.code, map |-> out.map]

\* lines 293-304: what the loader passes to its callback
CallbackArgs(out) ==
  IF out.ok
    THEN [called |-> TRUE, err |-> NoError, code |-> out.code, map |-> out.map]
    ELSE [called |-> TRUE,
          err |-> IF out.err.isError THEN out.err
                  ELSE [isError |-> TRUE, text |-> out.err.text],
          code |-> <<>>, map |-> NoMap]

\* no result of babel.transformAsync for the file in this compilation
NotCompiled == [ran |-> FALSE, stylex |-> NoStylex]

NoCallback == [called |-> FALSE, err |-> NoError, code |-> <<>>, map |-> NoMap]

IdleInvocation ==
  [stage |-> "idle", inputCode |-> <<>>, babelCalls |-> 0, cbCalls |-> 0,
   out |-> NoOut, cb |-> NoCallback]

(***************************************************************************)
(* State.                                                                  *)
(***************************************************************************)
VARIABLES
  babelrc,           \* this.babelConfig.babelrc
  parallelism,       \* webpack: modules built at once
  builds,            \* compilations this compiler runs (more than one: watch mode)
  stylexRules,       \* this.stylexRules: file -> rules
  fileToBundlesMap,  \* this.fileToBundlesMap: file -> bundle names
  firstRecorded,     \* history: the files in the order of their first record
  recordedNow,       \* history: the files recorded during this compilation
  produced,          \* history: per loader file, what the compiler returned for it
  phase,             \* where webpack is: idle, loading, chunked, emitted
  compilationNo,     \* compilations started on this plugin instance
  inv,               \* per loader file: the loader invocation of this compilation
  chunks,            \* the chunks of the compilation being sealed
  dropped,           \* history: files whose entry the reset of this seal discarded
  errors,            \* compilation.errors
  assets,            \* the emitAsset calls of this compilation, in order
  bundleToRules,     \* the lists built by the last emission pass
  pushed,            \* the (file, bundle) pairs the last pass pushed rules for
  thrown             \* the exception the last emission pass caught

vars ==
  <<babelrc, parallelism, builds, stylexRules, fileToBundlesMap, firstRecorded,
    recordedNow, produced, phase, compilationNo, inv, chunks, dropped, errors, assets, bundleToRules, pushed, thrown>>

configVars == <<babelrc, parallelism, builds>>
pluginVars == <<configVars, stylexRules, fileToBundlesMap, firstRecorded>>
trackerVars == <<fileToBundlesMap, chunks, dropped>>
emitterVars == <<assets, bundleToRules, pushed, thrown>>

\* constructor: empty maps; babelrc is a constructor option (default false);
\* parallelism is webpack's bound on the modules it builds at once
Init ==
  /\ babelrc \in BOOLEAN
  /\ parallelism \in 1..MaxParallel
  /\ builds \in 1..MaxCompilations
  /\ stylexRules = <<>>
  /\ fileToBundlesMap = <<>>
  /\ firstRecorded = <<>>
  /\ recordedNow = {}
  /\ produced = [f \in LoaderFiles |-> NotCompiled]
  /\ phase = "idle"
  /\ compilationNo = 0
  /\ inv = [f \in LoaderFiles |-> IdleInvocation]
  /\ chunks = <<>>
  /\ dropped = {}
  /\ errors = <<>>
  /\ assets = <<>>
  /\ bundleToRules = <<>>
  /\ pushed = {}
  /\ thrown = NoException

\* the default configuration, modules built one at a time, in one build
InitDefault == Init /\ babelrc = FALSE /\ parallelism = 1 /\ builds = 1

\* the default configuration in watch mode
InitWatch == Init /\ babelrc = FALSE /\ parallelism = 1 /\ builds = MaxCompilations

\* either babelrc mode, the modules built at once, watch mode
InitLoader == Init /\ parallelism = MaxParallel /\ builds = MaxCompilations

(***************************************************************************)
(* Operations.                                                             *)
(***************************************************************************)
\* compiler.hooks.make: a new compilation starts; the taps are registered on
\* it and none of the plugin's fields is touched
Make ==
  /\ phase \in {"idle", "emitted"}
  /\ compilationNo < builds
  /\ phase' = "loading"
  /\ compilationNo' = compilationNo + 1
  /\ inv' = [f \in LoaderFiles |-> IdleInvocation]
  /\ chunks' = <<>>
  /\ dropped' = {}
  /\ errors' = <<>>
  /\ assets' = <<>>
  /\ bundleToRules' = <<>>
  /\ pushed' = {}
  /\ thrown' = NoException
  /\ recordedNow' = {}
  /\ produced' = [f \in LoaderFiles |-> NotCompiled]
  /\ UNCHANGED pluginVars

InFlight == {f \in LoaderFiles : inv[f].stage \notin {"idle", "done"}}

\* webpack records a module whose loader reported an error
ModuleError == [step |-> "module", bundle |-> ""]

\* stylexLoader up to the first await of transformCode
StylexLoader(f, inputCode, hasPlugin) ==
  /\ phase = "loading"
  /\ inv[f].stage = "idle"
  /\ Cardinality(InFlight) < parallelism
  /\ inv' = [inv EXCEPT ![f] =
       IF ~hasPlugin
         THEN [IdleInvocation EXCEPT !.stage = "done", !.cbCalls = 1,
                 !.cb = CallbackArgs(Rejected([isError |-> TRUE, text |-> "noPlugin"]))]
       ELSE IF ~UsesStylex(inputCode)
         THEN [IdleInvocation EXCEPT !.stage = "resolved", !.inputCode = inputCode,
                 !.out = Resolved(inputCode, NoMap)]
       ELSE IF babelrc
         THEN [IdleInvocation EXCEPT !.stage = "readFile", !.inputCode = inputCode]
       ELSE [IdleInvocation EXCEPT !.stage = "babel", !.inputCode = inputCode,
               !.babelCalls = 1]]
  /\ errors' = IF ~hasPlugin THEN Append(errors, ModuleError) ELSE errors
  /\ UNCHANGED <<pluginVars, recordedNow, produced, phase, compilationNo, trackerVars,
                 emitterVars>>

\* await fs.readFile(filename, 'utf8') settles (babelrc mode)
ReadFileDone(f, ok) ==
  /\ phase = "loading"
  /\ inv[f].stage = "readFile"
  /\ inv' = [inv EXCEPT ![f] =
       IF ok THEN [@ EXCEPT !.stage = "babel", !.babelCalls = @ + 1]
       ELSE [@ EXCEPT !.stage = "rejected",
               !.out = Rejected([isError |-> TRUE, text |-> "readFile"])]]
  /\ UNCHANGED <<pluginVars, recordedNow, produced, phase, compilationNo, trackerVars,
                 errors, emitterVars>>

\* await babel.transformAsync(...) settles; lines 235-243
BabelDone(f, outcome) ==
  /\ phase = "loading"
  /\ inv[f].stage = "babel"
  /\ IF outcome.kind = "result"
       THEN /\ stylexRules' = Record(stylexRules, f, outcome.stylex)
            /\ firstRecorded' =
                 IF Has(stylexRules', f) /\ f \notin Range(firstRecorded)
                   THEN Append(firstRecorded, f) ELSE firstRecorded
            /\ recordedNow' =
                 IF outcome.stylex.has /\ outcome.stylex.rules # <<>>
                   THEN recordedNow \cup {f} ELSE recordedNow
            /\ produced' = [produced EXCEPT ![f] = [ran |-> TRUE, stylex |-> outcome.stylex]]
            /\ inv' = [inv EXCEPT ![f] =
                 [@ EXCEPT !.stage = "resolved",
                           !.out = Returned(inv[f].inputCode, babelrc)]]
       ELSE /\ UNCHANGED <<stylexRules, firstRecorded, recordedNow, produced>>
            /\ inv' = [inv EXCEPT ![f] =
                 [@ EXCEPT !.stage = "rejected",
                           !.out = Rejected([isError |-> outcome.kind # "nonError",
                                             text |-> outcome.kind])]]
  /\ UNCHANGED <<configVars, fileToBundlesMap, phase, compilationNo, chunks, dropped,
                 errors, emitterVars>>

\* the .then handlers of the loader: the callback is called; webpack records
\* a failed module in compilation.errors
LoaderCallback(f) ==
  /\ phase = "loading"
  /\ inv[f].stage \in {"resolved", "rejected"}
  /\ LET args == CallbackArgs(inv[f].out)
     IN /\ inv' = [inv EXCEPT ![f] =
              [IdleInvocation EXCEPT !.stage = "done", !.cb = args,
                        !.babelCalls = inv[f].babelCalls,
                        !.cbCalls = IF args.called THEN 1 ELSE 0]]
        /\ errors' = IF args.called /\ args.err.isError
                       THEN Append(errors, ModuleError)
                       ELSE errors
  /\ UNCHANGED <<pluginVars, recordedNow, produced, phase, compilationNo, trackerVars,
                 emitterVars>>

\* compilation.hooks.afterOptimizeChunks, once module loading is over
AfterOptimizeChunks(chunkList) ==
  /\ phase = "loading"
  /\ InFlight = {}
  /\ fileToBundlesMap' = AddChunks(ResetMap(fileToBundlesMap), chunkList)
  /\ chunks' = chunkList
  /\ dropped' = Range(Keys(fileToBundlesMap)) \ Range(Keys(fileToBundlesMap'))
  /\ phase' = "chunked"
  /\ inv' = [f \in LoaderFiles |-> IdleInvocation]
  /\ produced' = [f \in LoaderFiles |-> NotCompiled]
  /\ UNCHANGED <<configVars, stylexRules, firstRecorded, recordedNow, compilationNo,
                 errors, emitterVars>>

\* compilation.hooks.processAssets: lines 164-201
ProcessAssets(fail) ==
  /\ phase = "chunked"
  /\ LET joined == BundleToRules(stylexRules, fileToBundlesMap)
         order == ObjectKeys(joined.bundleToRules)
     IN /\ fail \in Fails(Len(order))
        /\ bundleToRules' = joined.bundleToRules
        /\ pushed' = joined.pushed
        /\ assets' = assets \o Emitted(order, joined.bundleToRules, fail)
        /\ thrown' = Exception(order, fail)
        /\ errors' = Catch(errors, fail, Exception(order, fail))
  /\ phase' = "emitted"
  /\ chunks' = <<>>
  /\ dropped' = {}
  /\ UNCHANGED <<configVars, stylexRules, fileToBundlesMap, firstRecorded, recordedNow,
                 produced, compilationNo, inv>>

\* One build in the default configuration: every phase, over chunks of
\* source modules, every place the emission pass may throw at.
Next ==
  \/ Make
  \/ \E f \in LoaderFiles, c \in InputCodes : StylexLoader(f, c, TRUE)
  \/ \E f \in LoaderFiles, o \in BabelOutcomes : BabelDone(f, o)
  \/ \E f \in LoaderFiles : LoaderCallback(f)
  \/ \E cs \in SourceChunkLists : AfterOptimizeChunks(cs)
  \/ \E fail \in Fails(MaxChunks + 1) : ProcessAssets(fail)

Spec == InitDefault /\ [][Next]_vars

\* The module-loading phase in every configuration: loader invocations run
\* at once, every input text, every compiler outcome; the builds have no chunk.
NextLoader ==
  \/ Make
  \/ \E f \in LoaderFiles, c \in InputCodes, p \in BOOLEAN : StylexLoader(f, c, p)
  \/ \E f \in LoaderFiles, ok \in BOOLEAN : ReadFileDone(f, ok)
  \/ \E f \in LoaderFiles, o \in BabelOutcomes : BabelDone(f, o)
  \/ \E f \in LoaderFiles : LoaderCallback(f)
  \/ AfterOptimizeChunks(<<>>)
  \/ ProcessAssets(NoFail)

SpecLoader == InitLoader /\ [][NextLoader]_vars

\* The bundle-membership tracker in watch mode, over every chunk list, no
\* module using the styling API.
NextTracker ==
  \/ Make
  \/ \E cs \in ChunkLists : AfterOptimizeChunks(cs)
  \/ ProcessAssets(NoFail)

SpecTracker == InitWatch /\ [][NextTracker]_vars

\* Rebuilds in watch mode: modules that import the styling API and compile,
\* builds of at most one chunk, emission passes that do not throw.
SingleChunkLists == {cs \in SourceChunkLists : Len(cs) <= 1}

NextWatch ==
  \/ Make
  \/ \E f \in LoaderFiles : StylexLoader(f, StylexImports[1], TRUE)
  \/ \E f \in LoaderFiles, st \in StylexOutputs :
       BabelDone(f, [kind |-> "result", stylex |-> st])
  \/ \E f \in LoaderFiles : LoaderCallback(f)
  \/ \E cs \in SingleChunkLists : AfterOptimizeChunks(cs)
  \/ ProcessAssets(NoFail)

SpecWatch == InitWatch /\ [][NextWatch]_vars

(***************************************************************************)
(* Properties.                                                             *)
(***************************************************************************)
\* every bundle name a chunk of the model can have
BundleNames == {ChunkName(c) : c \in ChunksWith({<<>>})}

\* the bundle set of a file in the file->bundles map (empty without an entry)
BundleSet(f) ==
  IF Has(fileToBundlesMap, f) THEN Range(Get(fileToBundlesMap, f)) ELSE {}

\* C1: after an emission pass, the rules of file f were pushed onto the list
\* of bundle b (and are a run of that list) if and only if f has an entry in
\* the file->rules map and b is in f's bundle set; a file with rules and no
\* bundle entry is pushed onto no list.
C1_ContributesIffMember ==
  phase = "emitted" =>
    \A f \in Files, b \in BundleNames :
      /\ (<<f, b>> \in pushed) <=> (Has(stylexRules, f) /\ b \in BundleSet(f))
      /\ (<<f, b>> \in pushed) =>
           /\ Has(bundleToRules, b)
           /\ Includes(Get(bundleToRules, b), Get(stylexRules, f))

\* a pass in which one file with rules has no bundle entry and contributes
\* nothing while another file contributes
C1_Witness ==
  /\ phase = "emitted"
  /\ \E f \in Files :
       /\ Has(stylexRules, f)
       /\ ~Has(fileToBundlesMap, f)
       /\ \A b \in BundleNames : <<f, b>> \notin pushed
  /\ pushed # {}

\* none of the configured import names occurs in the text
NoImportOccurs(code) ==
  \A k \in 1..Len(StylexImports) : ~Includes(code, StylexImports[k])

\* C2: a transformCode call on a text in which no import name occurs
\* resolves at once with the text itself and no source map, never calls the
\* compiler, and neither the call nor its completion changes the
\* file->rules map.
C2_NoImportPassThrough ==
  [][\A f \in LoaderFiles :
       /\ ( /\ inv[f].stage = "idle"
            /\ inv'[f].stage \in {"resolved", "readFile", "babel", "rejected"}
            /\ NoImportOccurs(inv'[f].inputCode) )
          => /\ inv'[f].stage = "resolved"
             /\ inv'[f].out = [ok |-> TRUE, code |-> inv'[f].inputCode,
                               map |-> NoMap, err |-> NoError]
             /\ inv'[f].babelCalls = 0
             /\ stylexRules' = stylexRules
       /\ ( /\ inv[f].stage = "resolved"
            /\ NoImportOccurs(inv[f].inputCode)
            /\ inv'[f] # inv[f] )
          => /\ inv'[f].babelCalls = 0
             /\ stylexRules' = stylexRules]_vars

\* a text holding the characters of an import name, not as a run, has passed
\* through while the map holds rules
C2_Witness ==
  \E f \in LoaderFiles :
    /\ inv[f].stage = "resolved"
    /\ inv[f].inputCode = <<"x", "s">>
    /\ inv[f].out.code = <<"x", "s">>
    /\ stylexRules # <<>>

\* the chunks of the run that hold a module with resource p
ChunksHolding(p) ==
  {i \in 1..Len(chunks) : p \in Range(chunks[i].modules)}

\* the path lies inside a node_modules directory
InsideNodeModules(p) == "node_modules" \in Range(p.dirs)

\* C3: after afterOptimizeChunks, for every chunk c and module resource p of
\* c: outside node_modules, c's identifier is in p's bundle list exactly once
\* (also when p is in c twice); inside node_modules, p has no entry.  Every
\* identifier in a file's list is that of a chunk of the run holding the file.
C3_MembershipExact ==
  phase = "chunked" =>
    /\ \A p \in Files : \A i \in ChunksHolding(p) :
         IF InsideNodeModules(p)
           THEN ~Has(fileToBundlesMap, p)
           ELSE /\ Has(fileToBundlesMap, p)
                /\ Cardinality({k \in 1..Len(Get(fileToBundlesMap, p)) :
                      Get(fileToBundlesMap, p)[k] = ChunkName(chunks[i])}) = 1
    /\ \A p \in Files : \A b \in BundleSet(p) :
         \E i \in ChunksHolding(p) : ChunkName(chunks[i]) = b
    /\ ~Has(fileToBundlesMap, NoResource)

\* a run over a chunk that holds a file twice and another chunk that holds
\* the same file beside a node_modules file; the identifiers are the id and
\* the hash fallback
C3_Witness ==
  /\ phase = "chunked"
  /\ \E i, j \in 1..Len(chunks) :
       /\ chunks[i].modules = <<FileA, FileA>>
       /\ chunks[j].modules = <<FileN, FileA>>
       /\ ChunkName(chunks[i]) = "0"
       /\ ChunkName(chunks[j]) = "chunk-h2"
  /\ Get(fileToBundlesMap, FileA) = <<"0", "chunk-h2">>

\* C4: a run of afterOptimizeChunks keeps nothing of the earlier map: a file
\* with an entry before the run and in no chunk of the run has no entry
\* after it, and a bundle name a file had before the run is in its list
\* after the run only if a chunk of the run with that name holds the file.
C4_MapReplaced ==
  [][(phase = "loading" /\ phase' = "chunked") =>
       \A f \in Range(Keys(fileToBundlesMap)) :
         /\ (\A i \in 1..Len(chunks') : f \notin Range(chunks'[i].modules))
              => ~Has(fileToBundlesMap', f)
         /\ \A b \in Range(Get(fileToBundlesMap, f)) :
              (Has(fileToBundlesMap', f) /\ b \in Range(Get(fileToBundlesMap', f)))
                => \E i \in 1..Len(chunks') :
                     /\ ChunkName(chunks'[i]) = b
                     /\ f \in Range(chunks'[i].modules)]_vars

\* the second compilation's run has discarded the entry of a file that is in
\* no chunk any more, and kept another file under a new bundle name
C4_Witness ==
  /\ phase = "chunked"
  /\ compilationNo = 2
  /\ FileA \in dropped
  /\ ~Has(fileToBundlesMap, FileA)
  /\ Has(fileToBundlesMap, FileB)

\* C5 (as claimed): the file->rules map is reset per build, so the rules an
\* emission pass pushes onto the bundle lists are those of files recorded in
\* the current compilation: no rules of a file that was not transformed
\* again, or whose new transform recorded nothing.
C5_RulesResetPerBuild ==
  phase = "emitted" => \A pair \in pushed : pair[1] \in recordedNow

\* the concatenation, over the files in the order given, of the rules of
\* those files that belong to bundle b
RECURSIVE RulesInOrder(_, _)
RulesInOrder(files, b) ==
  IF files = <<>> THEN <<>>
  ELSE (IF b \in BundleSet(Head(files)) THEN Get(stylexRules, Head(files)) ELSE <<>>)
         \o RulesInOrder(Tail(files), b)

\* C6: the list an emission pass builds for a bundle is the concatenation of
\* the rule sequences of the bundle's files, each in its recorded order, the
\* files in the order in which they were first recorded (insertion order of
\* the file->rules map; overwriting an entry does not move it).
C6_ListIsConcatenation ==
  phase = "emitted" =>
    \A b \in BundleNames :
      Has(bundleToRules, b) => Get(bundleToRules, b) = RulesInOrder(firstRecorded, b)

\* two files of one bundle, the first recorded in the first compilation and
\* overwritten in the second, the other recorded in the first compilation
\* only; the list is R1 ++ R2 and differs from R2 ++ R1
C6_Witness ==
  /\ phase = "emitted"
  /\ compilationNo = 2
  /\ Len(firstRecorded) = 2
  /\ recordedNow = {firstRecorded[1]}
  /\ \E b \in BundleNames :
       /\ b \in BundleSet(firstRecorded[1]) \cap BundleSet(firstRecorded[2])
       /\ Len(Get(stylexRules, firstRecorded[1])) = 2
       /\ Get(bundleToRules, b) =
            Get(stylexRules, firstRecorded[1]) \o Get(stylexRules, firstRecorded[2])
       /\ Get(bundleToRules, b) #
            Get(stylexRules, firstRecorded[2]) \o Get(stylexRules, firstRecorded[1])

\* the bundle has a member file with recorded rules
HasContributor(b) ==
  \E f \in Files : Has(stylexRules, f) /\ b \in BundleSet(f)

AssetsNamed(name) == {i \in 1..Len(assets) : assets[i].name = name}

\* C7: after an emission pass that threw nothing, each bundle with a member
\* file that has rules has exactly one asset, named <bundle>.stylex.css and
\* holding the processed rules of the bundle; a bundle without contributing
\* file has none, there is no other asset, and none at all when the
\* file->rules map is empty.
C7_OneAssetPerBundle ==
  (phase = "emitted" /\ thrown = NoException) =>
    /\ \A b \in BundleNames :
         IF HasContributor(b)
           THEN /\ Cardinality(AssetsNamed(b \o ".stylex.css")) = 1
                /\ \A i \in AssetsNamed(b \o ".stylex.css") :
                     assets[i].source =
                       ProcessStylexRules(Get(bundleToRules, b), UseCSSLayers)
           ELSE AssetsNamed(b \o ".stylex.css") = {}
    /\ Len(assets) = Cardinality({b \in BundleNames : HasContributor(b)})
    /\ stylexRules = <<>> => assets = <<>>

\* a pass over two bundles: one has its asset, built from the rules of two
\* files with the duplicates dropped; the other has no contributing file
C7_Witness ==
  /\ phase = "emitted"
  /\ thrown = NoException
  /\ Len(assets) = 1
  /\ \E b \in BundleNames :
       /\ HasContributor(b)
       /\ Len(Get(bundleToRules, b)) = 4
       /\ assets[1] = Asset(b, [css |-> <<"r1", "r2">>, layers |-> UseCSSLayers])
  /\ \E b \in BundleNames : ~HasContributor(b)

\* C8: an emission pass that throws, at whatever step, ends with the
\* compilation's error list grown by exactly one entry, the exception thrown;
\* a pass that throws nothing leaves the error list as it was.
C8_ThrowRecordedOnce ==
  [][(phase = "chunked" /\ phase' = "emitted") =>
       IF thrown' # NoException
         THEN errors' = Append(errors, thrown')
         ELSE errors' = errors]_vars

\* a pass that threw after a module error was already in the list
C8_Witness ==
  /\ phase = "emitted"
  /\ thrown # NoException
  /\ thrown.step = "hash"
  /\ Len(errors) = 2
  /\ errors[1] = ModuleError
  /\ errors[2] = thrown

\* the exception was thrown while the asset of one bundle was being emitted
ThrownInLoop == thrown.step \in {"hash", "path", "emit"}

\* C9 (as claimed): when emitting the asset of a bundle throws, every other
\* bundle with contributing rules still has its asset emitted in that pass.
C9_OthersStillEmitted ==
  (phase = "emitted" /\ ThrownInLoop) =>
    \A b \in Range(Keys(bundleToRules)) \ {thrown.bundle} :
      AssetsNamed(b \o ".stylex.css") # {}

\* C9 (amended): when emitting the asset of bundle b throws, the exception is
\* the last entry of the error list, each bundle iterated before b has its
\* one asset, and neither b nor any bundle iterated after b has one; when
\* rule processing throws, no asset is emitted.
C9_LaterBundlesNotEmitted ==
  LET order == ObjectKeys(bundleToRules)
  IN (phase = "emitted" /\ thrown # NoException) =>
       /\ errors # <<>> /\ errors[Len(errors)] = thrown
       /\ thrown.step = "process" => assets = <<>>
       /\ ThrownInLoop =>
            \E k \in 1..Len(order) :
              /\ order[k] = thrown.bundle
              /\ \A i \in 1..Len(order) :
                   Cardinality(AssetsNamed(order[i] \o ".stylex.css")) =
                     IF i < k THEN 1 ELSE 0

\* registering the asset of the first of two bundles threw: the second bundle
\* has contributing rules and no asset
C9_Witness ==
  LET order == ObjectKeys(bundleToRules)
  IN /\ phase = "emitted"
     /\ thrown.step = "emit"
     /\ Len(order) = 2
     /\ thrown.bundle = order[1]
     /\ Get(bundleToRules, order[2]) # <<>>
     /\ AssetsNamed(order[2] \o ".stylex.css") = {}
     /\ errors = <<thrown>>

\* one step of the loader invocation for file f
C10_Step(f) ==
  LET old == inv[f]
      new == inv'[f]
  IN \* only a compilation that returned a result writes the map
     /\ (new # old /\ ~(old.stage = "babel" /\ new.stage = "resolved"))
          => stylexRules' = stylexRules
     \* a failed compilation rejects the promise; the compiler is not called again
     /\ old.stage = "rejected" =>
          /\ ~old.out.ok
          /\ new.stage \in {"rejected", "done"}
          /\ new.babelCalls = old.babelCalls
          /\ new.babelCalls <= 1
     \* the failure is reported by one callback call, with an Error and no code
     /\ (old.stage = "rejected" /\ new.stage = "done") =>
          /\ new.cbCalls = 1
          /\ new.cb.called /\ new.cb.err.isError
          /\ new.cb.code = <<>> /\ new.cb.map = NoMap
     \* a success is reported by one callback call (null, code, map)
     /\ (old.stage = "resolved" /\ new.stage = "done") =>
          /\ new.cbCalls = 1
          /\ new.cb = [called |-> TRUE, err |-> NoError,
                       code |-> old.out.code, map |-> old.out.map]
     \* the callback is not called a second time
     /\ (old.stage = "done" /\ phase = "loading" /\ phase' = "loading") => new = old

\* C10: a compiler failure during transformCode rejects the call without a
\* retry and without a write to the file->rules map, and the loader calls its
\* callback exactly once, with an Error and no code; a successful
\* transformCode leads to exactly one callback call (null, code, map).
C10_FailureReportedOnce == [][\A f \in LoaderFiles : C10_Step(f)]_vars

\* one invocation failed with a value that is no Error and reported it
\* wrapped; another succeeded, recorded its rules and reported its code
C10_Witness ==
  \E f, g \in LoaderFiles :
    /\ inv[f].stage = "done"
    /\ inv[f].babelCalls = 1
    /\ inv[f].cb.err = [isError |-> TRUE, text |-> "nonError"]
    /\ inv[f].cb.code = <<>>
    /\ ~Has(stylexRules, f)
    /\ inv[g].stage = "done"
    /\ inv[g].cb.err = NoError
    /\ inv[g].cb.code = Compiled(StylexImports[1])
    /\ inv[g].cb.map = SourceMap(StylexImports[1])
    /\ Has(stylexRules, g)

\* the entry of file g, position included, is the same before and after
SameEntry(g) ==
  /\ Has(stylexRules', g) = Has(stylexRules, g)
  /\ Has(stylexRules, g) =>
       \E i \in 1..Len(stylexRules) :
         /\ i <= Len(stylexRules')
         /\ stylexRules[i].key = g
         /\ stylexRules'[i] = stylexRules[i]

\* the compiler returned a non-empty rule list for f in this compilation
ProducedRules(f) ==
  produced[f].ran /\ produced[f].stylex.has /\ produced[f].stylex.rules # <<>>

\* one step of the module-loading phase, seen from the invocation for file f
C11_Step(f) ==
  \* the map is written only by the step in which a compilation returns
  /\ stylexRules' # stylexRules =>
       \E g \in LoaderFiles : inv[g].stage = "babel" /\ inv'[g].stage = "resolved"
  /\ (inv[f].stage = "babel" /\ inv'[f].stage = "resolved") =>
       \* every entry of another file is left as it was
       /\ \A g \in Files \ {f} : SameEntry(g)
       /\ \A i \in 1..Len(stylexRules') : stylexRules'[i].key \in Files
       \* the own entry is written when, and only when, the list is non-empty
       /\ IF ProducedRules(f)'
            THEN /\ Has(stylexRules', f)
                 /\ Get(stylexRules', f) = produced'[f].stylex.rules
            ELSE stylexRules' = stylexRules

\* whatever the interleaving, each file whose invocation produced rules is
\* mapped to exactly those rules
C11_Final ==
  phase = "loading" =>
    \A f \in LoaderFiles :
      ProducedRules(f) =>
        Has(stylexRules, f) /\ Get(stylexRules, f) = produced[f].stylex.rules

\* C11: for any interleaving of transformCode invocations on distinct files
\* in one module-loading phase, an invocation writes at most the entry of its
\* own file, and only when the compiler returned a non-empty rule list
\* (overwriting an earlier entry); every other entry is left unchanged, so
\* the map holds, for each such file, the rules its own invocation produced.
C11_OwnEntryOnly ==
  [][(\A f \in LoaderFiles : C11_Step(f)) /\ C11_Final']_vars

\* in a rebuild, the invocation for one file has overwritten its entry while
\* the invocation for the other file is still awaiting the compiler; the
\* entry of the other file, recorded by the earlier compilation, is intact
C11_Witness ==
  /\ phase = "loading"
  /\ compilationNo = 2
  /\ parallelism = 2
  /\ inv[FileA].stage = "babel"
  /\ inv[FileB].stage = "resolved"
  /\ ProducedRules(FileB)
  /\ recordedNow = {FileB}
  /\ Len(stylexRules) = 2
  /\ stylexRules[1] = [key |-> FileB, val |-> <<"r2">>]
  /\ stylexRules[2] = [key |-> FileA, val |-> <<"r1", "r2">>]

====
